---- MODULE Spec2Model ----
(***************************************************************************)
(* Answer evaluation of the WaniKani card templates: the front side's      *)
(* Enter-key advisor (_wk3_front.ts), the back side's grader and typo      *)
(* detection (_wk3_back.ts) and the string utilities both rest on          *)
(* (_wk3_util).                                                            *)
(*                                                                         *)
(* A string is a sequence of UTF-16 code units, each written as a short    *)
(* ASCII name.  Latin: "a" "i" "c" "k" "n" "A", the apostrophe "'", the    *)
(* space " ", the hyphen "-", the comma ",".  Hiragana: "h_a" "h_i" "h_n"  *)
(* "h_ka" "h_ki" "h_na" "h_ni"; katakana: "k_a".  "ic" is the ideographic  *)
(* comma, "<r>" and "</r>" the opening and closing tag of an HTML element. *)
(* Surrogates: "D83D" "DE00" are the two units of U+1F600, "D835" "DCB3"   *)
(* those of U+1D4B3.                                                       *)
(***************************************************************************)
EXTENDS Integers, Sequences, FiniteSets, TLC

VARIABLES
    expected,    \* first argument of the utility under test
    typed,       \* second argument of the utility under test
    levResult,   \* <<levenshtein(expected, typed)>> once called, <<>> before
    typoResult,  \* <<likelyTypo(expected, typed)>> once called, <<>> before
    card,        \* the template fields `_` of the card being reviewed
    side,        \* "front" or "back"
    value,       \* typeans.value, the answer input's text
    shake,       \* typeans.classList.contains("shake")
    keypress,    \* what the last Enter keypress did, or NoKey
    submitted,   \* the value the host received when Enter passed through
    back,        \* what setupBack rendered, or NoBack
    graded,      \* the first grading of this card and what followed, or NoGrade
    heap,        \* the property values of each object, in Object.values order
    frozen,      \* the objects Object.freeze was applied to
    freezeResult \* <<how deepFreeze(object 1) ended>> once called, <<>> before

vars == <<expected, typed, levResult, typoResult,
          card, side, value, shake, keypress, submitted, back, graded,
          heap, frozen, freezeResult>>

freezeVars == <<heap, frozen, freezeResult>>

utilVars == <<expected, typed, levResult, typoResult>>
cardVars == <<card, side, value, shake, keypress, submitted, back>>


(***************************************************************************)
(* Bounds.                                                                 *)
(***************************************************************************)
\* Longest string handed to levenshtein and likelyTypo.
MaxLen == 6

\* The code units the utility strings are drawn from.
LevUnits == {"a", "b"}

RECURSIVE StringsUpTo(_, _)
StringsUpTo(units, n) ==
    IF n = 0 THEN {<<>>}
    ELSE LET shorter == StringsUpTo(units, n - 1)
         IN  shorter \cup {Append(s, u) : s \in {t \in shorter : Len(t) = n - 1},
                                          u \in units}

LevStrings == StringsUpTo(LevUnits, MaxLen)

\* Most characters of a string that holds characters outside the BMP.
MaxAstralLen == 2

\* Characters as the units a string holds for them: one inside the Basic
\* Multilingual Plane, two (a surrogate pair) outside it.
AstralChars == {<<"a">>, <<"D83D", "DE00">>, <<"D835", "DCB3">>}

RECURSIVE CharsUpTo(_, _)
CharsUpTo(chars, n) ==
    IF n = 0 THEN {<<>>}
    ELSE LET shorter == CharsUpTo(chars, n - 1)
         IN  shorter \cup {s \o ch : s \in shorter, ch \in chars}

AstralStrings == CharsUpTo(AstralChars, MaxAstralLen)

(***************************************************************************)
(* levenshtein (js-levenshtein, as vendored in _wk3_util).                 *)
(***************************************************************************)
_min(d0, d1, d2, bx, ay) ==
    IF d0 < d1 \/ d2 < d1
    THEN IF d0 > d2 THEN d2 + 1 ELSE d0 + 1
    ELSE IF bx = ay THEN d1 ELSE d1 + 1

\* The suffix loop: la after `while (la > 0 && a[la-1] === b[lb-1])`.
RECURSIVE TrimSuffix(_, _, _, _)
TrimSuffix(a, b, la, lb) ==
    IF la > 0 /\ a[la] = b[lb] THEN TrimSuffix(a, b, la - 1, lb - 1) ELSE la

\* The prefix loop: offset after `while (offset < la && a[offset] === b[offset])`.
RECURSIVE TrimPrefix(_, _, _, _)
TrimPrefix(a, b, la, offset) ==
    IF offset < la /\ a[offset + 1] = b[offset + 1]
    THEN TrimPrefix(a, b, la, offset + 1) ELSE offset

\* The inner loop of the unrolled block: one pass over the vector for the
\* four columns bx0..bx3. st = [vec, d0, d1, d2, d3, dd]; ay[y] is a's unit.
RECURSIVE Inner4(_, _, _, _)
Inner4(ay, bx, y, st) ==
    IF y > Len(ay) THEN st
    ELSE LET dy == st.vec[y]
             n0 == _min(dy, st.d0, st.d1, bx[1], ay[y])
             n1 == _min(n0, st.d1, st.d2, bx[2], ay[y])
             n2 == _min(n1, st.d2, st.d3, bx[3], ay[y])
             nd == _min(n2, st.d3, st.dd, bx[4], ay[y])
         IN  Inner4(ay, bx, y + 1,
                    [vec |-> [st.vec EXCEPT ![y] = nd],
                     d0 |-> dy, d1 |-> n0, d2 |-> n1, d3 |-> n2, dd |-> nd])

\* The inner loop of the remainder block: one column bx0.
RECURSIVE Inner1(_, _, _, _)
Inner1(ay, bx0, y, st) ==
    IF y > Len(ay) THEN st
    ELSE LET dy == st.vec[y]
             nd == _min(dy, st.d0, st.dd, bx0, ay[y])
         IN  Inner1(ay, bx0, y + 1,
                    [vec |-> [st.vec EXCEPT ![y] = nd], d0 |-> dy, dd |-> nd])

\* `for (; x < lb - 3;)`: st = [x, vec, dd].
RECURSIVE MainLoop(_, _, _, _)
MainLoop(ay, bt, lb, st) ==
    IF st.x < lb - 3
    THEN LET x == st.x
             r == Inner4(ay, <<bt[x + 1], bt[x + 2], bt[x + 3], bt[x + 4]>>, 1,
                         [vec |-> st.vec, d0 |-> x, d1 |-> x + 1, d2 |-> x + 2,
                          d3 |-> x + 3, dd |-> x + 4])
         IN  MainLoop(ay, bt, lb, [x |-> x + 4, vec |-> r.vec, dd |-> r.dd])
    ELSE st

\* `for (; x < lb;)`.
RECURSIVE RestLoop(_, _, _, _)
RestLoop(ay, bt, lb, st) ==
    IF st.x < lb
    THEN LET x == st.x
             r == Inner1(ay, bt[x + 1], 1, [vec |-> st.vec, d0 |-> x, dd |-> x + 1])
         IN  RestLoop(ay, bt, lb, [x |-> x + 1, vec |-> r.vec, dd |-> r.dd])
    ELSE st

\* The trimmed operands: [la, lb, ay, bt] with ay, bt the units that are left.
\* The trim without the swap that puts the shorter string first; a unit read
\* past either end of a string equals no unit.
Trimmed_NoSwap(a0, b0) ==
    LET shorter == IF Len(a0) < Len(b0) THEN Len(a0) ELSE Len(b0)
        common(k) == \A i \in 0..(k - 1) : a0[Len(a0) - i] = b0[Len(b0) - i]
        sfx == CHOOSE k \in 0..shorter :
                   common(k) /\ (k < shorter => ~common(k + 1))
        la1 == Len(a0) - sfx
        lb1 == Len(b0) - sfx
        lead(k) == \A i \in 1..k : a0[i] = b0[i]
        least == IF la1 < lb1 THEN la1 ELSE lb1
        offset == CHOOSE k \in 0..least : lead(k) /\ (k < least => ~lead(k + 1))
    IN  [la |-> la1 - offset, lb |-> lb1 - offset,
         ay |-> SubSeq(a0, offset + 1, la1), bt |-> SubSeq(b0, offset + 1, lb1)]

Trimmed(a0, b0) ==
    LET swap == Len(a0) > Len(b0)
        a == IF swap THEN b0 ELSE a0
        b == IF swap THEN a0 ELSE b0
        la1 == TrimSuffix(a, b, Len(a), Len(b))
        lb1 == Len(b) - (Len(a) - la1)
        offset == TrimPrefix(a, b, la1, 0)
    IN  [la |-> la1 - offset, lb |-> lb1 - offset,
         ay |-> SubSeq(a, offset + 1, la1), bt |-> SubSeq(b, offset + 1, lb1)]

\* levenshtein with the early return taken one unit too late.
levenshtein_EarlyReturn4(a0, b0) ==
    IF a0 = b0 THEN 0
    ELSE LET t == Trimmed(a0, b0)
         IN  IF t.la = 0 \/ t.lb < 4 THEN t.lb
             ELSE LET vector == [y \in 1..t.la |-> y]
                      m == MainLoop(t.ay, t.bt, t.lb, [x |-> 0, vec |-> vector, dd |-> 0])
                      r == RestLoop(t.ay, t.bt, t.lb, m)
                  IN  r.dd

levenshtein(a0, b0) ==
    IF a0 = b0 THEN 0
    ELSE LET t == Trimmed(a0, b0)
         IN  IF t.la = 0 \/ t.lb < 3 THEN t.lb
             ELSE LET vector == [y \in 1..t.la |-> y]
                      m == MainLoop(t.ay, t.bt, t.lb, [x |-> 0, vec |-> vector, dd |-> 0])
                      r == RestLoop(t.ay, t.bt, t.lb, m)
                  IN  r.dd

\* likelyTypo with the tolerance of the long tier in the middle tier.
likelyTypo_WideMiddleTier(e, t) ==
    LET lev == levenshtein(e, t)
    IN  CASE Len(e) \in {0, 1} -> e = t
          [] OTHER -> lev < 3

likelyTypo(e, t) ==
    LET lev == levenshtein(e, t)
    IN  CASE Len(e) \in {0, 1} -> e = t
          [] Len(e) \in {2, 3} -> lev < 2
          [] OTHER -> lev < 3


(***************************************************************************)
(* JavaScript strings, arrays and Sets.  A Set is kept as the sequence of  *)
(* its elements in insertion order, without duplicates.                    *)
(***************************************************************************)
Whitespace == {" "}
Tags == {"<r>", "</r>"}

LowerUnit(u) == IF u = "A" THEN "a" ELSE u

toLowerCase(s) == [i \in 1..Len(s) |-> LowerUnit(s[i])]

\* str.replace(u, ""): a string pattern replaces the first occurrence only.
RemoveFirst(s, u) ==
    IF \E i \in 1..Len(s) : s[i] = u
    THEN LET i == CHOOSE k \in 1..Len(s) :
                      s[k] = u /\ \A j \in 1..(k - 1) : s[j] # u
         IN  SubSeq(s, 1, i - 1) \o SubSeq(s, i + 1, Len(s))
    ELSE s

endsWith(s, u) == Len(s) > 0 /\ s[Len(s)] = u

\* frag(html).textContent: the text without the markup.
stripHTML(html) == SelectSeq(html, LAMBDA u : u \notin Tags)

mapToLowerCase(arr) == [i \in 1..Len(arr) |-> toLowerCase(arr[i])]

mapStripHTML(arr) == [i \in 1..Len(arr) |-> stripHTML(arr[i])]

has(set, x) == \E i \in 1..Len(set) : set[i] = x

RECURSIVE NewSet(_)
NewSet(arr) ==
    IF arr = <<>> THEN <<>>
    ELSE LET init == NewSet(SubSeq(arr, 1, Len(arr) - 1))
             last == arr[Len(arr)]
         IN  IF has(init, last) THEN init ELSE Append(init, last)

isSubsetOf(s, t) == \A i \in 1..Len(s) : has(t, s[i])
isDisjointFrom(s, t) == \A i \in 1..Len(s) : ~has(t, s[i])
difference(s, t) == SelectSeq(s, LAMBDA x : ~has(t, x))
union(s, t) == s \o difference(t, s)

\* The two patterns the templates split on.
COMMA_SPACE == [regexp |-> FALSE, sep |-> <<",", " ">>]     \* ", "
ANSWER_DELIMS == [regexp |-> TRUE, sep |-> <<>>]             \* /[、,]\s*/

StartsWithAt(s, i, sep) ==
    /\ i + Len(sep) - 1 <= Len(s)
    /\ SubSeq(s, i, i + Len(sep) - 1) = sep

\* String.prototype.split with a string separator.
RECURSIVE SplitString(_, _, _, _)
SplitString(s, sep, i, cur) ==
    IF i > Len(s) THEN <<cur>>
    ELSE IF StartsWithAt(s, i, sep)
         THEN <<cur>> \o SplitString(s, sep, i + Len(sep), <<>>)
         ELSE SplitString(s, sep, i + 1, Append(cur, s[i]))

RECURSIVE SkipSpace(_, _)
SkipSpace(s, i) ==
    IF i <= Len(s) /\ s[i] \in Whitespace THEN SkipSpace(s, i + 1) ELSE i

\* String.prototype.split with /[、,]\s*/.
RECURSIVE SplitDelims(_, _, _)
SplitDelims(s, i, cur) ==
    IF i > Len(s) THEN <<cur>>
    ELSE IF s[i] \in {",", "ic"}
         THEN <<cur>> \o SplitDelims(s, SkipSpace(s, i + 1), <<>>)
         ELSE SplitDelims(s, i + 1, Append(cur, s[i]))

\* split without the test of the empty string: "".split(pat) is [""].
split_NoEmptyTest(str, pat) ==
    IF pat.regexp THEN SplitDelims(str, 1, <<>>)
    ELSE SplitString(str, pat.sep, 1, <<>>)

\* split(str, pat) of _wk3_util, for the patterns the templates pass.
split(str, pat) ==
    IF str = <<>> THEN <<>>
    ELSE IF pat.regexp THEN SplitDelims(str, 1, <<>>)
         ELSE SplitString(str, pat.sep, 1, <<>>)

(***************************************************************************)
(* The transliteration library (wanakana), on the units of this model.     *)
(***************************************************************************)
Hiragana == {"h_a", "h_i", "h_n", "h_ka", "h_ki", "h_na", "h_ni"}
Katakana == {"k_a"}
Romaji == {"a", "i", "c", "k", "n", "A", "'", " ", "-", ","} \cup Tags
VowelKana == {"h_a", "h_i", "k_a"}

Syllable(c, v) ==
    CASE c \in {"c", "k"} /\ v = "a" -> <<"h_ka">>
      [] c \in {"c", "k"} /\ v = "i" -> <<"h_ki">>
      [] c = "n" /\ v = "a" -> <<"h_na">>
      [] c = "n" /\ v = "i" -> <<"h_ni">>
      [] c = "n" /\ v = "'" -> <<"h_n">>
      [] OTHER -> <<>>

KanaOfUnit(u) ==
    CASE u = "a" -> "h_a"
      [] u = "i" -> "h_i"
      [] u = "n" -> "h_n"
      [] u = "A" -> "k_a"
      [] OTHER -> u

RECURSIVE ToKanaFrom(_, _)
ToKanaFrom(s, i) ==
    IF i > Len(s) THEN <<>>
    ELSE IF i < Len(s) /\ Syllable(s[i], s[i + 1]) # <<>>
         THEN Syllable(s[i], s[i + 1]) \o ToKanaFrom(s, i + 2)
         ELSE <<KanaOfUnit(s[i])>> \o ToKanaFrom(s, i + 1)

toKana(s) == ToKanaFrom(s, 1)

mapToKana(arr) == [i \in 1..Len(arr) |-> toKana(arr[i])]

RomajiOfUnit(u) ==
    CASE u = "h_a" -> <<"a">>
      [] u = "h_i" -> <<"i">>
      [] u = "k_a" -> <<"a">>
      [] u = "h_n" -> <<"n">>
      [] u = "h_ka" -> <<"k", "a">>
      [] u = "h_ki" -> <<"k", "i">>
      [] u = "h_na" -> <<"n", "a">>
      [] u = "h_ni" -> <<"n", "i">>
      [] OTHER -> <<u>>

RECURSIVE ToRomajiFrom(_, _)
ToRomajiFrom(s, i) ==
    IF i > Len(s) THEN <<>>
    ELSE LET apostrophe == IF s[i] = "h_n" /\ i < Len(s) /\ s[i + 1] \in VowelKana
                           THEN <<"'">> ELSE <<>>
         IN  RomajiOfUnit(s[i]) \o apostrophe \o ToRomajiFrom(s, i + 1)

toRomaji(s) == ToRomajiFrom(s, 1)

isMixed(s) ==
    /\ \E i \in 1..Len(s) : s[i] \in Hiragana \cup Katakana
    /\ \E i \in 1..Len(s) : s[i] \in Romaji

(***************************************************************************)
(* The front side: setupFront's answer sets, checkWarning and the Enter    *)
(* keypress handler.  c is the card's template fields.                     *)
(***************************************************************************)
frontMeaningWhitelist(c) ==
    NewSet(mapToLowerCase(split(c.Meaning_Whitelist, COMMA_SPACE)))

frontReadingWhitelist(c) ==
    NewSet(mapStripHTML(split(c.Reading_Whitelist, COMMA_SPACE)))

readingAll(c) ==
    NewSet(mapStripHTML(split(c.Reading_Onyomi, COMMA_SPACE)
                   \o split(c.Reading_Kunyomi, COMMA_SPACE)))

readingWarning(c) == difference(readingAll(c), frontReadingWhitelist(c))

RomajiLower(s) == toLowerCase(toRomaji(s))

mapRomajiLower(arr) == [i \in 1..Len(arr) |-> RomajiLower(arr[i])]

\* checkWarning for Reading cards without the mixed-script rule.
checkWarningReading_NoMixedRule(c, answers) ==
    IF isSubsetOf(answers, frontReadingWhitelist(c)) THEN FALSE
    ELSE IF isSubsetOf(NewSet(mapRomajiLower(answers)), frontMeaningWhitelist(c))
         THEN TRUE
    ELSE IF isSubsetOf(answers, NewSet(mapToKana(frontMeaningWhitelist(c))))
         THEN TRUE
    ELSE IF c.Card_Type \in {"Kanji", "Vocabulary"}
         THEN /\ isSubsetOf(answers, readingAll(c))
              /\ ~isDisjointFrom(answers, readingWarning(c))
    ELSE FALSE

checkWarningReading(c, answers) ==
    IF \E i \in 1..Len(answers) : isMixed(answers[i]) THEN TRUE
    ELSE IF isSubsetOf(answers, frontReadingWhitelist(c)) THEN FALSE
    ELSE IF isSubsetOf(NewSet(mapRomajiLower(answers)), frontMeaningWhitelist(c))
         THEN TRUE
    ELSE IF isSubsetOf(answers, NewSet(mapToKana(frontMeaningWhitelist(c))))
         THEN TRUE
    ELSE IF c.Card_Type \in {"Kanji", "Vocabulary"}
         THEN /\ isSubsetOf(answers, readingAll(c))
              /\ ~isDisjointFrom(answers, readingWarning(c))
    ELSE FALSE

checkWarningMeaning(c, answers) ==
    IF isSubsetOf(answers, frontMeaningWhitelist(c)) THEN FALSE
    ELSE isSubsetOf(NewSet(mapToKana(answers)), readingAll(c))

checkWarning(c, answers) ==
    IF c.Card = "Reading" THEN checkWarningReading(c, answers)
    ELSE checkWarningMeaning(c, answers)

\* The Enter handler's rewrite without the test of _.Card.
EnterValue_AnyCard(c, v) ==
    IF endsWith(v, "n")
    THEN SubSeq(v, 1, Len(v) - 1) \o <<"h_n">>
    ELSE v

\* The value the Enter handler leaves in the input.
EnterValue(c, v) ==
    IF c.Card = "Reading" /\ endsWith(v, "n")
    THEN SubSeq(v, 1, Len(v) - 1) \o <<"h_n">>
    ELSE v

\* The tokens taken with String.prototype.split itself: "" gives [""].
EnterAnswers_NativeSplit(c, v) == NewSet(SplitDelims(EnterValue(c, v), 1, <<>>))

EnterAnswers(c, v) == NewSet(split(EnterValue(c, v), ANSWER_DELIMS))

\* answers.size && checkWarning(answers)
EnterWarning(c, v) ==
    /\ Len(EnterAnswers(c, v)) > 0
    /\ checkWarning(c, EnterAnswers(c, v))

(***************************************************************************)
(* The back side: setupBack's answer check.                                *)
(***************************************************************************)
mangleAnswer(ans) == RemoveFirst(toLowerCase(ans), "'")

\* The text of the .typeGood and .typeBad spans, "-" spans left out.
RECURSIVE typedAnswerOf(_)
typedAnswerOf(spans) ==
    IF spans = <<>> THEN <<>>
    ELSE (IF Head(spans) = <<"-">> THEN <<>> ELSE Head(spans))
             \o typedAnswerOf(Tail(spans))

backMeaningWhitelist(c) ==
    NewSet(split(toLowerCase(c.Meaning_Whitelist), COMMA_SPACE))

backReadingWhitelist(c) ==
    NewSet(split(toLowerCase(c.Reading_Whitelist), COMMA_SPACE))

meanings(c) == NewSet(split(toLowerCase(c.Meaning), COMMA_SPACE))

\* The "Accepted:" list holding the whole whitelist.
accepted_WholeWhitelist(c) == backMeaningWhitelist(c)

\* The "Accepted:" list of a Meaning card.
accepted(c) == difference(backMeaningWhitelist(c), meanings(c))

\* correctAnswers as the switch on _.Card leaves it.
correctAnswers(c) ==
    IF c.Card = "Meaning" THEN union(meanings(c), accepted(c))
    ELSE backReadingWhitelist(c)

blacklist(c) ==
    IF c.Card = "Meaning"
    THEN NewSet(mapToLowerCase(split(c.Meaning_Blacklist, COMMA_SPACE)))
    ELSE <<>>

MangleStripped(a) == mangleAnswer(stripHTML(a))

mapMangleStripped(arr) == [i \in 1..Len(arr) |-> MangleStripped(arr[i])]

\* correctAnswers as the answer check rebuilds it.
mangledCorrectAnswers(c) == NewSet(mapMangleStripped(correctAnswers(c)))

mangle(c, x) == IF c.Card = "Reading" THEN toRomaji(x) ELSE x

\* checkTypos leaving the inner loop at the first likely typo of an answer.
checkTypos_FirstMatchOnly(c, answers, exp) ==
    LET n == Len(exp)
        pairs == [k \in 1..(Len(answers) * n) |->
                     [ans |-> answers[((k - 1) \div n) + 1],
                      expected |-> exp[((k - 1) % n) + 1]]]
        hit(p) == /\ ~has(blacklist(c), p.ans)
                  /\ likelyTypo(mangle(c, p.expected), mangle(c, p.ans))
    IN  SelectSeq(pairs, LAMBDA p :
            /\ hit(p)
            /\ \A k \in 1..Len(pairs) :
                   (pairs[k].ans = p.ans /\ hit(pairs[k])) =>
                       \A j \in 1..Len(pairs) : pairs[j] = p => j <= k)

\* The "Did you mean" lines, in the order they are inserted.
checkTypos(c, answers, exp) ==
    LET n == Len(exp)
        pairs == [k \in 1..(Len(answers) * n) |->
                     [ans |-> answers[((k - 1) \div n) + 1],
                      expected |-> exp[((k - 1) % n) + 1]]]
    IN  SelectSeq(pairs, LAMBDA p :
            /\ ~has(blacklist(c), p.ans)
            /\ likelyTypo(mangle(c, p.expected), mangle(c, p.ans)))

\* The "Accepted:" details that #correct shows, on a Meaning card only.
acceptedShown(c) == IF c.Card = "Meaning" THEN accepted(c) ELSE <<>>

NoBack ==
    [typedAnswer |-> <<>>, verdict |-> "none", answers |-> <<>>, typos |-> <<>>,
     accepted |-> <<>>]

\* The answer check looking for typos whatever the verdict.
setupBack_TyposWhenCorrect(c, spans) ==
    LET typedAnswer == typedAnswerOf(spans)
        typedAnswerLower == mangleAnswer(typedAnswer)
        answers == NewSet(split(typedAnswerLower, ANSWER_DELIMS))
        expect == mangledCorrectAnswers(c)
    IN  IF typedAnswerLower # <<>>
        THEN [typedAnswer |-> typedAnswer,
              verdict |-> IF isSubsetOf(answers, expect)
                          THEN "correct" ELSE "incorrect",
              answers |-> answers, typos |-> checkTypos(c, answers, expect),
              accepted |-> acceptedShown(c)]
        ELSE [NoBack EXCEPT !.typedAnswer = typedAnswer,
                            !.accepted = acceptedShown(c)]

\* The answer check without the test of the empty answer.
setupBack_GradesEmpty(c, spans) ==
    LET typedAnswer == typedAnswerOf(spans)
        typedAnswerLower == mangleAnswer(typedAnswer)
        answers == NewSet(split(typedAnswerLower, ANSWER_DELIMS))
        expect == mangledCorrectAnswers(c)
    IN  IF isSubsetOf(answers, expect)
        THEN [typedAnswer |-> typedAnswer, verdict |-> "correct",
              answers |-> answers, typos |-> <<>>,
              accepted |-> acceptedShown(c)]
        ELSE [typedAnswer |-> typedAnswer, verdict |-> "incorrect",
              answers |-> answers, typos |-> checkTypos(c, answers, expect),
              accepted |-> acceptedShown(c)]

setupBack(c, spans) ==
    LET typedAnswer == typedAnswerOf(spans)
        typedAnswerLower == mangleAnswer(typedAnswer)
        answers == NewSet(split(typedAnswerLower, ANSWER_DELIMS))
        expect == mangledCorrectAnswers(c)
    IN  IF typedAnswerLower # <<>>
        THEN IF isSubsetOf(answers, expect)
             THEN [typedAnswer |-> typedAnswer, verdict |-> "correct",
                   answers |-> answers, typos |-> <<>>,
                   accepted |-> acceptedShown(c)]
             ELSE [typedAnswer |-> typedAnswer, verdict |-> "incorrect",
                   answers |-> answers, typos |-> checkTypos(c, answers, expect),
                   accepted |-> acceptedShown(c)]
        ELSE [NoBack EXCEPT !.typedAnswer = typedAnswer,
                            !.accepted = acceptedShown(c)]

(***************************************************************************)
(* deepFreeze of _wk3_util, on a heap of objects.  A property value is an  *)
(* object (or array) of the heap, null, or a string.                       *)
(***************************************************************************)
\* Objects of the heap; deepFreeze is called on object 1.
MaxObjects == 3

\* Most properties (or elements) of one object.
MaxProps == 2

Objects == 1..MaxObjects

Obj(o) == [kind |-> "object", ref |-> o]
Null == [kind |-> "null", ref |-> 0]
Str == [kind |-> "string", ref |-> 0]

Values == {Obj(o) : o \in Objects} \cup {Null, Str}

RECURSIVE ValueLists(_)
ValueLists(n) ==
    IF n = 0 THEN {<<>>}
    ELSE LET shorter == ValueLists(n - 1)
         IN  shorter \cup {Append(l, v) : l \in {k \in shorter : Len(k) = n - 1},
                                          v \in Values}

Heaps == [Objects -> ValueLists(MaxProps)]

NoHeap == [o \in Objects |-> <<>>]

\* typeof val
TypeOf(val) == IF val.kind \in {"object", "null"} THEN "object" ELSE val.kind

\* deepFreeze(obj) on heap h with the objects fz frozen and depth calls
\* above it on the stack.  Object.freeze(null) returns null and
\* Object.values(null) throws.  A chain of calls on more objects than the
\* heap has met one object twice and never ends: the stack overflows.
RECURSIVE deepFreeze(_, _, _, _)
RECURSIVE FreezeValues(_, _, _, _, _)
deepFreeze(h, obj, fz, depth) ==
    IF obj.kind = "null"
    THEN [outcome |-> "TypeError", value |-> obj, frozen |-> fz]
    ELSE IF depth >= MaxObjects
         THEN [outcome |-> "RangeError", value |-> obj, frozen |-> fz]
         ELSE FreezeValues(h, obj, 1, fz \cup {obj.ref}, depth)

\* The loop over Object.values(obj), from the i-th value on.
FreezeValues(h, obj, i, fz, depth) ==
    IF i > Len(h[obj.ref])
    THEN [outcome |-> "returned", value |-> obj, frozen |-> fz]
    ELSE LET val == h[obj.ref][i]
         IN  IF TypeOf(val) = "object" /\ obj.kind # "null"
             THEN LET r == deepFreeze(h, val, fz, depth + 1)
                  IN  IF r.outcome = "returned"
                      THEN FreezeValues(h, obj, i + 1, r.frozen, depth)
                      ELSE r
             ELSE FreezeValues(h, obj, i + 1, fz, depth)

(***************************************************************************)
(* The cards and the answers the model reviews.                            *)
(***************************************************************************)
\* Tokens following the first one in a typed answer.
MaxExtraTokens == 1

CardTypes == {"Radical", "Kanji", "Vocabulary", "Kana Vocabulary"}

Field(Card, Card_Type, Meaning, Meaning_Whitelist, Meaning_Blacklist, Reading_Whitelist, Reading_Onyomi, Reading_Kunyomi, Reading_Nanori) ==
    [Card |-> Card, Card_Type |-> Card_Type, Meaning |-> Meaning,
     Meaning_Whitelist |-> Meaning_Whitelist,
     Meaning_Blacklist |-> Meaning_Blacklist,
     Reading_Whitelist |-> Reading_Whitelist,
     Reading_Onyomi |-> Reading_Onyomi,
     Reading_Kunyomi |-> Reading_Kunyomi,
     Reading_Nanori |-> Reading_Nanori]

MeaningCards ==
    {Field("Meaning", t, m, mw, mb, <<"h_a", "h_i">>, on, <<>>, <<>>) :
        t \in CardTypes,
        m \in {<<"A", "i", ",", " ", "i", "a">>, <<"c", "a">>, <<"a", "'", "i">>},
        mw \in {<<>>, <<"a", "i", ",", " ", "c", "a">>},
        mb \in {<<>>, <<"a", "a", ",", " ", "i", "'", "i">>},
        on \in {<<>>, <<"<r>", "h_ka", "</r>", ",", " ", "h_a", "h_i">>}}

ReadingCards ==
    {Field("Reading", t, m, mw, <<>>, rw, on, <<>>, nan) :
        t \in CardTypes,
        m \in {<<"A", "i", ",", " ", "i", "a">>, <<"c", "a">>},
        mw \in {<<>>, <<"a", "i", ",", " ", "c", "a">>},
        rw \in {<<"h_a", "h_i">>, <<"h_i", ",", " ", "h_a", "h_n">>},
        on \in {<<>>, <<"<r>", "h_a", "h_i", "</r>", ",", " ", "h_a", "h_a">>},
        nan \in {<<>>, <<"h_ka">>}}

\* Reading cards whose fields are all empty but the meaning.
EmptyFieldCards ==
    {Field("Reading", t, <<"c", "a">>, <<>>, <<>>, <<>>, <<>>, <<>>, <<>>) :
        t \in {"Radical", "Kanji"}}

Cards == MeaningCards \cup ReadingCards \cup EmptyFieldCards

\* What the learner types as a first token, per kind of card.
Tokens(Card) ==
    IF Card = "Meaning"
    THEN {<<>>, <<"a", "i">>, <<"A", "i">>, <<"a", "a">>, <<"i", "'", "i">>,
          <<"c", "a">>, <<"k", "a">>, <<"a", "'", "i">>, <<"'">>, <<"a", "n">>}
    ELSE {<<>>, <<"h_a", "h_i">>, <<"h_a", "h_a">>, <<"h_i">>, <<"h_ka">>,
          <<"h_a", "n">>, <<"h_a", "a">>, <<"k_a", "h_i">>}

\* What the learner types as a further token.
ExtraTokens(Card) ==
    IF Card = "Meaning" THEN {<<>>, <<"i", "a">>, <<"a", "'", "i">>}
    ELSE {<<>>, <<"h_a", "n">>}

Delims == {<<",">>, <<"ic", " ">>}

RECURSIVE Continuations(_, _)
Continuations(Card, n) ==
    IF n = 0 THEN {<<>>}
    ELSE LET shorter == Continuations(Card, n - 1)
         IN  shorter \cup {s \o d \o t : s \in shorter, d \in Delims,
                                         t \in ExtraTokens(Card)}

\* The first tokens that the learner follows with further ones.
LeadTokens(Card) ==
    IF Card = "Meaning" THEN {<<>>, <<"c", "a">>, <<"a", "'", "i">>}
    ELSE {<<>>, <<"h_a", "h_i">>, <<"h_a", "n">>}

Inputs(Card) ==
    Tokens(Card) \cup
        {t \o s : t \in LeadTokens(Card),
                  s \in Continuations(Card, MaxExtraTokens)}

(***************************************************************************)
(* One review: the card is shown, the learner types, presses Enter, the    *)
(* shake animation ends, the back is shown.                                *)
(***************************************************************************)
NoKey ==
    [pressed |-> FALSE, value |-> <<>>, answers |-> <<>>, warning |-> FALSE,
     shaking |-> FALSE, prevented |-> FALSE]

\* The learner types an answer into the empty input.
TypeAnswer ==
    /\ side = "front"
    /\ value = <<>>
    /\ \E v \in Inputs(card.Card) \ {<<>>} : value' = v
    /\ keypress' = NoKey
    /\ submitted' = <<>>
    /\ UNCHANGED <<card, side, shake, back, utilVars, graded, freezeVars>>

\* The learner clears the input.
ClearAnswer ==
    /\ side = "front"
    /\ value # <<>>
    /\ value' = <<>>
    /\ keypress' = NoKey
    /\ submitted' = <<>>
    /\ UNCHANGED <<card, side, shake, back, utilVars, graded, freezeVars>>

\* The keypress listener without the test of the shake class.
Enter_RestartsShake ==
    /\ side = "front"
    /\ LET v == EnterValue(card, value)
           warning == EnterWarning(card, value)
           reject == warning
       IN  /\ value' = v
           /\ shake' = (shake \/ reject)
           /\ keypress' = [pressed |-> TRUE, value |-> v,
                           answers |-> EnterAnswers(card, value),
                           warning |-> warning, shaking |-> shake,
                           prevented |-> reject]
           /\ submitted' = IF reject THEN submitted ELSE <<v>>
    /\ UNCHANGED <<card, side, back, utilVars, graded, freezeVars>>

\* The keypress listener adding the shake class without stopping the event.
Enter_ShakesButSubmits ==
    /\ side = "front"
    /\ LET v == EnterValue(card, value)
           warning == EnterWarning(card, value)
           reject == warning /\ ~shake
       IN  /\ value' = v
           /\ shake' = (shake \/ reject)
           /\ keypress' = [pressed |-> TRUE, value |-> v,
                           answers |-> EnterAnswers(card, value),
                           warning |-> warning, shaking |-> shake,
                           prevented |-> FALSE]
           /\ submitted' = <<v>>
    /\ UNCHANGED <<card, side, back, utilVars, graded, freezeVars>>

\* The keypress listener removing the shake class when it lets a key pass.
Enter_ClearsShake ==
    /\ side = "front"
    /\ LET v == EnterValue(card, value)
           warning == EnterWarning(card, value)
           reject == warning /\ ~shake
       IN  /\ value' = v
           /\ shake' = reject
           /\ keypress' = [pressed |-> TRUE, value |-> v,
                           answers |-> EnterAnswers(card, value),
                           warning |-> warning, shaking |-> shake,
                           prevented |-> reject]
           /\ submitted' = IF reject THEN submitted ELSE <<v>>
    /\ UNCHANGED <<card, side, back, utilVars, graded, freezeVars>>

\* The keypress listener, for the Enter key; the host's own handler
\* receives the event unless the listener stopped it.
Enter ==
    /\ side = "front"
    /\ LET v == EnterValue(card, value)
           warning == EnterWarning(card, value)
           reject == warning /\ ~shake
       IN  /\ value' = v
           /\ shake' = (shake \/ reject)
           /\ keypress' = [pressed |-> TRUE, value |-> v,
                           answers |-> EnterAnswers(card, value),
                           warning |-> warning, shaking |-> shake,
                           prevented |-> reject]
           /\ submitted' = IF reject THEN submitted ELSE <<v>>
    /\ UNCHANGED <<card, side, back, utilVars, graded, freezeVars>>

\* The animationend listener.
AnimationEnd ==
    /\ side = "front"
    /\ shake
    /\ shake' = FALSE
    /\ UNCHANGED <<card, side, value, keypress, submitted, back, utilVars, graded, freezeVars>>

\* The host shows the back with the typed answer in one span.
ShowBack ==
    /\ side = "front"
    /\ side' = "back"
    /\ back' = setupBack(card, <<value>>)
    /\ value' = <<>>
    /\ shake' = FALSE
    /\ keypress' = NoKey
    /\ submitted' = <<>>
    /\ UNCHANGED <<card, utilVars, graded, freezeVars>>

\* The host shows the front of the card again.
ShowFront ==
    /\ side = "back"
    /\ side' = "front"
    /\ back' = NoBack
    /\ UNCHANGED <<card, value, shake, keypress, submitted, utilVars, graded, freezeVars>>

\* No answer of this card was graded yet.
NoGrade == [done |-> FALSE, result |-> NoBack, between |-> FALSE]

Init ==
    /\ card \in Cards
    /\ side = "front"
    /\ value = <<>>
    /\ shake = FALSE
    /\ keypress = NoKey
    /\ submitted = <<>>
    /\ back = NoBack
    /\ graded = NoGrade
    /\ heap = NoHeap
    /\ frozen = {}
    /\ freezeResult = <<>>
    /\ expected = <<>>
    /\ typed = <<>>
    /\ levResult = <<>>
    /\ typoResult = <<>>

Next == TypeAnswer \/ ClearAnswer \/ Enter \/ AnimationEnd \/ ShowBack \/ ShowFront

Spec == Init /\ [][Next]_vars

(***************************************************************************)
(* Repeated reviews of one card: the front is shown, an answer typed, the  *)
(* back shown and graded, again and again; the first grading is kept.      *)
(***************************************************************************)
\* The Kanji cards that are reviewed repeatedly.
GradeCards ==
    {c \in Cards : /\ c.Card_Type = "Kanji"
                   /\ c.Reading_Onyomi = <<>>
                   /\ c.Reading_Nanori = <<>>
                   /\ c.Card = "Meaning" => c.Meaning_Blacklist # <<>>
                   /\ c.Card = "Meaning" => c.Meaning_Whitelist # <<>>
                   /\ c.Card = "Reading" => c.Meaning_Whitelist = <<>>}

\* The back is shown on a page that still holds the #typos of the back shown
\* for the first grading.
GradeBack_KeepsTypos ==
    /\ side = "front"
    /\ side' = "back"
    /\ LET b == setupBack(card, <<value>>)
       IN  /\ back' = [b EXCEPT !.typos = graded.result.typos \o @]
           /\ graded' = IF ~graded.done
                         THEN [done |-> TRUE, result |-> b, between |-> FALSE]
                         ELSE [graded EXCEPT !.between =
                                   @ \/ b.typedAnswer # graded.result.typedAnswer]
    /\ value' = <<>>
    /\ shake' = FALSE
    /\ keypress' = NoKey
    /\ submitted' = <<>>
    /\ UNCHANGED <<card, utilVars, freezeVars>>

\* Card.showBack: the page is emptied, the answer side loaded with the typed
\* answer in one span, and setupBack run on it.
GradeBack ==
    /\ side = "front"
    /\ side' = "back"
    /\ LET b == setupBack(card, <<value>>)
       IN  /\ back' = b
           /\ graded' = IF ~graded.done
                         THEN [done |-> TRUE, result |-> b, between |-> FALSE]
                         ELSE [graded EXCEPT !.between =
                                   @ \/ b.typedAnswer # graded.result.typedAnswer]
    /\ value' = <<>>
    /\ shake' = FALSE
    /\ keypress' = NoKey
    /\ submitted' = <<>>
    /\ UNCHANGED <<card, utilVars, freezeVars>>

GradeInit == Init /\ card \in GradeCards

GradeNext == TypeAnswer \/ ClearAnswer \/ GradeBack \/ ShowFront

GradeSpec == GradeInit /\ [][GradeNext]_vars

(***************************************************************************)
(* The utilities under test: arguments drawn by Init, one call per action. *)
(***************************************************************************)
UtilInit ==
    /\ expected \in LevStrings \cup AstralStrings
    /\ typed \in LevStrings \cup AstralStrings
    /\ levResult = <<>>
    /\ typoResult = <<>>
    /\ card = Field("Meaning", "Radical", <<>>, <<>>, <<>>, <<>>, <<>>, <<>>, <<>>)
    /\ side = "front"
    /\ value = <<>>
    /\ shake = FALSE
    /\ keypress = NoKey
    /\ submitted = <<>>
    /\ back = NoBack
    /\ graded = NoGrade
    /\ heap = NoHeap
    /\ frozen = {}
    /\ freezeResult = <<>>

CallLevenshtein ==
    /\ levResult = <<>>
    /\ levResult' = <<levenshtein(expected, typed)>>
    /\ UNCHANGED <<expected, typed, typoResult, cardVars, graded, freezeVars>>

CallLikelyTypo ==
    /\ typoResult = <<>>
    /\ typoResult' = <<likelyTypo(expected, typed)>>
    /\ UNCHANGED <<expected, typed, levResult, cardVars, graded, freezeVars>>

UtilNext == CallLevenshtein \/ CallLikelyTypo

UtilSpec == UtilInit /\ [][UtilNext]_vars

(***************************************************************************)
(* deepFreeze under test: a heap drawn by Init, one call on object 1.      *)
(***************************************************************************)
FreezeInit ==
    /\ heap \in Heaps
    /\ frozen = {}
    /\ freezeResult = <<>>
    /\ expected = <<>>
    /\ typed = <<>>
    /\ levResult = <<>>
    /\ typoResult = <<>>
    /\ card = Field("Meaning", "Radical", <<>>, <<>>, <<>>, <<>>, <<>>, <<>>, <<>>)
    /\ side = "front"
    /\ value = <<>>
    /\ shake = FALSE
    /\ keypress = NoKey
    /\ submitted = <<>>
    /\ back = NoBack
    /\ graded = NoGrade

CallDeepFreeze ==
    /\ freezeResult = <<>>
    /\ LET r == deepFreeze(heap, Obj(1), frozen, 0)
       IN  /\ frozen' = r.frozen
           /\ freezeResult' = <<[outcome |-> r.outcome, value |-> r.value]>>
    /\ UNCHANGED <<heap, utilVars, cardVars, graded>>

FreezeNext == CallDeepFreeze

FreezeSpec == FreezeInit /\ [][FreezeNext]_vars

(***************************************************************************)
(* Reference: the plain dynamic-programming edit distance.                 *)
(***************************************************************************)
Min3(x, y, z) == IF x <= y /\ x <= z THEN x ELSE IF y <= z THEN y ELSE z

\* Row i of the table for a against b, from row i-1.
RECURSIVE DPRow(_, _, _, _, _)
DPRow(a, b, i, prev, cur) ==
    IF Len(cur) = Len(b) + 1 THEN cur
    ELSE LET j == Len(cur)
             cost == IF a[i] = b[j] THEN 0 ELSE 1
         IN  DPRow(a, b, i, prev,
                   Append(cur, Min3(prev[j + 1] + 1, cur[j] + 1, prev[j] + cost)))

RECURSIVE DPRows(_, _, _, _)
DPRows(a, b, i, prev) ==
    IF i > Len(a) THEN prev[Len(b) + 1]
    ELSE DPRows(a, b, i + 1, DPRow(a, b, i, prev, <<i>>))

EditDistance(a, b) == DPRows(a, b, 1, [j \in 1..(Len(b) + 1) |-> j - 1])


(***************************************************************************)
(* C3: levenshtein(a, b) is the unit-cost edit distance of a and b, for    *)
(* all strings, empty ones included, on every path of the implementation.  *)
(***************************************************************************)
C3_LevenshteinIsEditDistance ==
    levResult # <<>> => levResult[1] = EditDistance(expected, typed)

\* A call that trims a common end, then runs the unrolled block and the
\* remainder loop.
C3_Witness ==
    /\ levResult # <<>>
    /\ Trimmed(expected, typed).la >= 1
    /\ Trimmed(expected, typed).lb >= 5
    /\ Trimmed(expected, typed).la < Len(expected)
    /\ levResult[1] >= 3

(***************************************************************************)
(* C4: likelyTypo(expected, typed) follows the tiers keyed on the length   *)
(* of expected: 0 or 1, equality; 2 or 3, distance below 2; 4 and more,    *)
(* distance below 3.  likelyTypo(s, s) is true for every s.                *)
(***************************************************************************)
TierPolicy(e, t) ==
    IF Len(e) <= 1 THEN e = t
    ELSE IF Len(e) <= 3 THEN EditDistance(e, t) < 2
    ELSE EditDistance(e, t) < 3

C4_LikelyTypoFollowsTiers ==
    typoResult # <<>> =>
        /\ typoResult[1] = TierPolicy(expected, typed)
        /\ expected = typed => typoResult[1]

\* A middle-tier call refused at distance 2.
C4_Witness ==
    /\ typoResult = <<FALSE>>
    /\ Len(expected) = 3
    /\ EditDistance(expected, typed) = 2

(***************************************************************************)
(* The answer sets of the Answer-Set Policy.                               *)
(***************************************************************************)
Range(seq) == {seq[i] : i \in 1..Len(seq)}

FieldTokens(field) == Range(split(field, COMMA_SPACE))

\* Meaning mode's allAccepted: primary and alternative meanings and the
\* meaning whitelist, lower-cased.
MeaningAllAccepted(c) ==
    {toLowerCase(t) : t \in FieldTokens(c.Meaning) \cup FieldTokens(c.Meaning_Whitelist)}

\* allAccepted of the card's own mode, in the form the grader compares.
AllAcceptedNormalized(c) ==
    IF c.Card = "Meaning"
    THEN {mangleAnswer(stripHTML(t)) : t \in MeaningAllAccepted(c)}
    ELSE {mangleAnswer(stripHTML(toLowerCase(t))) : t \in FieldTokens(c.Reading_Whitelist)}

\* The grader's normal form of one token: lower-cased, apostrophe removed.
SubmittedTokens(text) ==
    {mangleAnswer(t) : t \in Range(split(text, ANSWER_DELIMS))}

(***************************************************************************)
(* C1: an input the grader would grade Correct is never warned about: the  *)
(* Enter keypress is not rejected and no shake is started.                 *)
(***************************************************************************)
C1_CorrectIsNeverWarned ==
    (/\ keypress.pressed
     /\ setupBack(card, <<keypress.value>>).verdict = "correct")
        => ~keypress.warning /\ ~keypress.prevented

(***************************************************************************)
(* C2: for a locked answer that is not empty once normalized, the verdict  *)
(* is Correct iff the submitted tokens, each in normalized form, are a     *)
(* non-empty subset of allAccepted, and Incorrect otherwise.               *)
(***************************************************************************)
C2_CorrectIffSubsetOfAccepted ==
    (side = "back" /\ mangleAnswer(back.typedAnswer) # <<>>) =>
        LET tokens == SubmittedTokens(back.typedAnswer)
        IN  IF tokens # {} /\ tokens \subseteq AllAcceptedNormalized(card)
            THEN back.verdict = "correct"
            ELSE back.verdict = "incorrect"

(***************************************************************************)
(* C5: when the verdict is Incorrect, the typo suggestions are exactly the *)
(* pairs (submitted token s, accepted token e) with s not blacklisted and  *)
(* s a likely typo of e, both romanized on a Reading card and taken as     *)
(* they are on a Meaning card; one suggestion per such accepted token,     *)
(* each reporting the tokens themselves.                                   *)
(***************************************************************************)
BlacklistTokens(c) ==
    IF c.Card = "Meaning"
    THEN {toLowerCase(t) : t \in FieldTokens(c.Meaning_Blacklist)}
    ELSE {}

Norm(c, t) == IF c.Card = "Reading" THEN toRomaji(t) ELSE t

C5_TypoSuggestionsAreTheNearMisses ==
    (side = "back" /\ back.verdict = "incorrect") =>
        /\ Range(back.typos) =
               {p \in [ans : Range(back.answers),
                       expected : AllAcceptedNormalized(card)] :
                   /\ p.ans \notin BlacklistTokens(card)
                   /\ TierPolicy(Norm(card, p.expected), Norm(card, p.ans))}
        /\ Cardinality(Range(back.typos)) = Len(back.typos)

\* One submitted token suggested for two accepted tokens.
C5_Witness ==
    /\ side = "back"
    /\ back.verdict = "incorrect"
    /\ \E i, j \in 1..Len(back.typos) :
           /\ back.typos[i].ans = back.typos[j].ans
           /\ back.typos[i].expected # back.typos[j].expected

(***************************************************************************)
(* C6: on a Meaning card a submitted token that equals a blacklisted token *)
(* in the form used for grading gets no typo suggestion, even when it is   *)
(* within typo tolerance of an accepted meaning.                           *)
(***************************************************************************)
C6_BlacklistedTokenGetsNoSuggestion ==
    (side = "back" /\ card.Card = "Meaning") =>
        \A i \in 1..Len(back.typos) :
            \A b \in FieldTokens(card.Meaning_Blacklist) :
                mangleAnswer(b) # back.typos[i].ans

(***************************************************************************)
(* C7: on a Reading card, an input with a mixed-script token is warned     *)
(* about whatever the accepted readings, the meanings and the reading      *)
(* inventory hold.                                                         *)
(***************************************************************************)
C7_MixedScriptAlwaysWarns ==
    (/\ keypress.pressed
     /\ card.Card = "Reading"
     /\ \E t \in Range(keypress.answers) : isMixed(t))
        => /\ keypress.warning
           /\ ~keypress.shaking => keypress.prevented

\* A mixed-script token rejected on a card with no whitelisted meaning and
\* no reading inventory.
C7_Witness ==
    /\ keypress.pressed
    /\ card.Card = "Reading"
    /\ card.Meaning_Whitelist = <<>>
    /\ card.Reading_Onyomi = <<>>
    /\ \E t \in Range(keypress.answers) : isMixed(t)
    /\ keypress.prevented

(***************************************************************************)
(* The rules of the Reading advisor, over the Answer-Set Policy.           *)
(***************************************************************************)
\* Reading mode's allReadings: the onyomi, kunyomi and nanori tokens.
AllReadings(c) ==
    {stripHTML(t) : t \in FieldTokens(c.Reading_Onyomi)
                      \cup FieldTokens(c.Reading_Kunyomi)
                      \cup FieldTokens(c.Reading_Nanori)}

\* Reading mode's allAccepted, as the advisor compares it.
ReadingAllAccepted(c) == {stripHTML(t) : t \in FieldTokens(c.Reading_Whitelist)}

\* The tokens romanized and lower-cased are all accepted meanings.
RomanizedMeaning(c, answers) ==
    {toLowerCase(toRomaji(t)) : t \in answers} \subseteq MeaningAllAccepted(c)

\* Every token is the kana transliteration of an accepted meaning.
KanaOfMeaning(c, answers) ==
    answers \subseteq {toKana(m) : m \in MeaningAllAccepted(c)}

\* Rules a-c do not apply: no mixed-script token, not every token an
\* accepted reading, the romanized tokens not all accepted meanings.
RulesABCDoNotApply(c, answers) ==
    /\ \A t \in answers : ~isMixed(t)
    /\ ~(answers \subseteq ReadingAllAccepted(c))
    /\ ~RomanizedMeaning(c, answers)

\* Rule d: every token a known reading, one of them not an accepted one.
RealButUnlisted(c, answers) ==
    /\ answers \subseteq AllReadings(c)
    /\ \E t \in answers : t \in AllReadings(c) \ ReadingAllAccepted(c)

(***************************************************************************)
(* C8: on a Reading card where rules a-c do not apply, a Kanji or          *)
(* Vocabulary card warns iff every token is in allReadings and one of them *)
(* is in allReadings but not in allAccepted; a Radical or Kana Vocabulary  *)
(* card does not warn.  Inputs made of the kana of accepted meanings,      *)
(* which C10 has rejected, are left aside.                                 *)
(***************************************************************************)
C8_RuleDAfterRulesABC ==
    (/\ keypress.pressed
     /\ card.Card = "Reading"
     /\ keypress.answers # <<>>
     /\ RulesABCDoNotApply(card, Range(keypress.answers))
     /\ ~KanaOfMeaning(card, Range(keypress.answers)))
        => IF card.Card_Type \in {"Kanji", "Vocabulary"}
           THEN keypress.warning <=> RealButUnlisted(card, Range(keypress.answers))
           ELSE ~keypress.warning

(***************************************************************************)
(* C9: on a Reading card with no mixed-script token and not every token an *)
(* accepted reading, the advisor warns whenever the romanized, lower-cased *)
(* tokens are all in Meaning mode's allAccepted.                           *)
(***************************************************************************)
C9_RomanizedMeaningWarns ==
    (/\ keypress.pressed
     /\ card.Card = "Reading"
     /\ keypress.answers # <<>>
     /\ \A t \in Range(keypress.answers) : ~isMixed(t)
     /\ ~(Range(keypress.answers) \subseteq ReadingAllAccepted(card))
     /\ RomanizedMeaning(card, Range(keypress.answers)))
        => keypress.warning

(***************************************************************************)
(* C10: on a Reading card of any type, an input that is not entirely       *)
(* accepted readings and whose every token is the kana transliteration of  *)
(* an accepted meaning is rejected when Enter is pressed on the resting    *)
(* input: the shake starts and the answer is not submitted.                *)
(***************************************************************************)
C10_KanaOfMeaningRejected ==
    (/\ keypress.pressed
     /\ card.Card = "Reading"
     /\ keypress.answers # <<>>
     /\ ~keypress.shaking
     /\ ~(Range(keypress.answers) \subseteq ReadingAllAccepted(card))
     /\ KanaOfMeaning(card, Range(keypress.answers)))
        => keypress.warning /\ keypress.prevented

(***************************************************************************)
(* C11: on a Meaning card with a non-empty input, the advisor does not     *)
(* warn when every token is in allAccepted; otherwise it warns iff the     *)
(* kana transliteration of every token is in the reading inventory.        *)
(***************************************************************************)
C11_MeaningAdvisorRules ==
    (/\ keypress.pressed
     /\ card.Card = "Meaning"
     /\ keypress.answers # <<>>)
        => LET answers == Range(keypress.answers)
           IN  keypress.warning <=>
                   /\ ~(answers \subseteq MeaningAllAccepted(card))
                   /\ {toKana(t) : t \in answers} \subseteq AllReadings(card)

(***************************************************************************)
(* C12: on Enter on a Reading card, a value ending in the Latin letter n   *)
(* has that final n, and nothing else, replaced by the kana n; the tokens  *)
(* the advisor checks and the value submitted are those of the rewritten   *)
(* value.  On a Meaning card the value is never rewritten.                 *)
(***************************************************************************)
TrailingNRewritten(v) ==
    IF card.Card = "Reading" /\ v # <<>> /\ v[Len(v)] = "n"
    THEN [i \in 1..Len(v) |-> IF i = Len(v) THEN "h_n" ELSE v[i]]
    ELSE v

C12_TrailingNBecomesKana ==
    [][Enter =>
         /\ value' = TrailingNRewritten(value)
         /\ Range(keypress'.answers) = Range(split(value', ANSWER_DELIMS))
         /\ keypress'.warning =
                (value' # <<>> /\ checkWarning(card, keypress'.answers))
         /\ ~keypress'.prevented => submitted' = <<TrailingNRewritten(value)>>]_vars

\* Two tokens ending in n typed on a Reading card: only the last one is
\* rewritten, and the first is left mixed.
C12_Witness ==
    /\ keypress.pressed
    /\ card.Card = "Reading"
    /\ Len(keypress.answers) = 2
    /\ keypress.answers[1] = <<"h_a", "n">>
    /\ keypress.answers[2] = <<"h_a", "h_n">>
    /\ value = keypress.value

(***************************************************************************)
(* C13: a shake is started only while no shake is in progress.  An Enter   *)
(* during a shake neither restarts nor queues one, and a running shake     *)
(* ends only by animationend (or with the page, when the back is shown).   *)
(***************************************************************************)
C13_ShakeStartsOnlyAtRest ==
    [][/\ (Enter /\ keypress'.prevented) => (~shake /\ shake')
       /\ (Enter /\ shake) => (shake' /\ ~keypress'.prevented)
       /\ (~shake /\ shake') => (Enter /\ keypress'.prevented)
       /\ (shake /\ ~shake') => (AnimationEnd \/ side' = "back")]_vars

\* Enter pressed during a shake on an input the advisor warns about.
C13_Witness ==
    /\ keypress.pressed
    /\ keypress.shaking
    /\ keypress.warning
    /\ ~keypress.prevented
    /\ shake

(***************************************************************************)
(* C14: an Enter pressed while no shake is in progress has exactly one of  *)
(* two outcomes.  Either the input is not empty and the advisor warns:     *)
(* the shake starts, the event is stopped and nothing is submitted.  Or    *)
(* the keypress passes through: no shake, and the input's current value    *)
(* is submitted.                                                           *)
(***************************************************************************)
C14_EnterRejectsOrSubmits ==
    [][(Enter /\ ~shake) =>
         IF value' # <<>> /\ checkWarning(card, keypress'.answers)
         THEN /\ shake'
              /\ keypress'.prevented
              /\ submitted' = submitted
         ELSE /\ ~shake'
              /\ ~keypress'.prevented
              /\ submitted' = <<value'>>]_vars

\* A rejected Enter: the shake runs and nothing has been submitted.
C14_Witness ==
    /\ keypress.pressed
    /\ ~keypress.shaking
    /\ keypress.prevented
    /\ shake
    /\ value # <<>>
    /\ submitted = <<>>

C16_RomanizedMatchIsCorrect ==
    (/\ side = "back"
     /\ card.Card = "Reading"
     /\ back.typedAnswer # <<>>
     /\ {toRomaji(t) : t \in Range(split(back.typedAnswer, ANSWER_DELIMS))}
            \subseteq {toRomaji(e) : e \in ReadingAllAccepted(card)})
        => /\ back.verdict = "correct"
           /\ back.typos = <<>>

(***************************************************************************)
(* C17: the grader compares submitted and accepted tokens lower-cased and  *)
(* with their apostrophes removed, token by token: a submission that       *)
(* differs from accepted answers only by case or apostrophes, in any token *)
(* and however many apostrophes, is graded Correct.                        *)
(***************************************************************************)
CaseAndApostropheFolded(t) == SelectSeq(toLowerCase(t), LAMBDA u : u # "'")

C17_CaseAndApostrophesIgnored ==
    (/\ side = "back"
     /\ back.typedAnswer # <<>>
     /\ {CaseAndApostropheFolded(t) :
            t \in Range(split(back.typedAnswer, ANSWER_DELIMS))}
          \subseteq {CaseAndApostropheFolded(e) : e \in AllAcceptedNormalized(card)})
        => back.verdict = "correct"

(***************************************************************************)
(* C18: every answer token set, of the learner's input as of a card field, *)
(* holds only trimmed, non-empty tokens: a leading, trailing or doubled    *)
(* delimiter or white space around a token adds no empty or padded token.  *)
(***************************************************************************)
TrimmedNonEmpty(t) ==
    /\ t # <<>>
    /\ t[1] \notin Whitespace
    /\ t[Len(t)] \notin Whitespace

C18_TokensAreTrimmedAndNonEmpty ==
    /\ \A t \in Range(keypress.answers) \cup Range(back.answers) :
           TrimmedNonEmpty(t)
    /\ \A t \in Range(frontMeaningWhitelist(card))
                  \cup Range(frontReadingWhitelist(card))
                  \cup Range(readingAll(card))
                  \cup Range(correctAnswers(card))
                  \cup Range(blacklist(card)) : TrimmedNonEmpty(t)

C20_UnlistedNanoriWarns ==
    (/\ keypress.pressed
     /\ card.Card = "Reading"
     /\ card.Card_Type \in {"Kanji", "Vocabulary"}
     /\ keypress.answers # <<>>
     /\ Range(keypress.answers)
            \subseteq {stripHTML(t) : t \in FieldTokens(card.Reading_Nanori)}
     /\ Range(keypress.answers) \cap ReadingAllAccepted(card) = {})
        => keypress.warning

(***************************************************************************)
(* C21: on the back of a Meaning card the "also accepted" set is exactly   *)
(* the lower-cased whitelist tokens that are not lower-cased meanings; it  *)
(* is disjoint from the meanings, allAccepted is the meanings together     *)
(* with it, which is the meanings together with the whitelist, and it is   *)
(* shown the same whether the verdict is Correct, Incorrect or absent.     *)
(***************************************************************************)
CorrectMeanings(c) == {toLowerCase(t) : t \in FieldTokens(c.Meaning)}

WhitelistMeanings(c) == {toLowerCase(t) : t \in FieldTokens(c.Meaning_Whitelist)}

C21_AcceptedExtraIsWhitelistMinusMeanings ==
    (side = "back" /\ card.Card = "Meaning") =>
        /\ Range(back.accepted) = WhitelistMeanings(card) \ CorrectMeanings(card)
        /\ Cardinality(Range(back.accepted)) = Len(back.accepted)
        /\ Range(back.accepted) \cap CorrectMeanings(card) = {}
        /\ Range(correctAnswers(card)) =
               CorrectMeanings(card) \cup Range(back.accepted)
        /\ Range(correctAnswers(card)) =
               CorrectMeanings(card) \cup WhitelistMeanings(card)

\* No answer was typed, and the whitelist repeats one meaning and adds one.
C21_Witness ==
    /\ side = "back"
    /\ card.Card = "Meaning"
    /\ back.verdict = "none"
    /\ back.accepted # <<>>
    /\ WhitelistMeanings(card) \cap CorrectMeanings(card) # {}

(***************************************************************************)
(* C22: levenshtein counts one edit per Unicode code point: replacing,     *)
(* inserting or deleting one character outside the Basic Multilingual      *)
(* Plane, which a string holds as two code units, costs exactly 1.         *)
(***************************************************************************)
HighSurrogates == {"D83D", "D835"}
LowSurrogates == {"DE00", "DCB3"}

\* The code points of a string, each as the units that encode it.
RECURSIVE CodePoints(_)
CodePoints(s) ==
    IF s = <<>> THEN <<>>
    ELSE IF /\ Len(s) >= 2
            /\ s[1] \in HighSurrogates
            /\ s[2] \in LowSurrogates
         THEN <<SubSeq(s, 1, 2)>> \o CodePoints(SubSeq(s, 3, Len(s)))
         ELSE <<SubSeq(s, 1, 1)>> \o CodePoints(Tail(s))

C22_OneEditPerCodePoint ==
    levResult # <<>> =>
        levResult[1] = EditDistance(CodePoints(expected), CodePoints(typed))

(***************************************************************************)
(* C23: levenshtein(a, b) = levenshtein(b, a) for all strings a and b,     *)
(* those of equal length, which the implementation does not swap,          *)
(* included.                                                               *)
(***************************************************************************)
C23_LevenshteinIsSymmetric ==
    levResult # <<>> => levResult[1] = levenshtein(typed, expected)

\* Two different strings of one length that run through the unrolled loop.
C23_WitnessEqualLength ==
    /\ levResult # <<>>
    /\ expected # typed
    /\ Len(expected) = Len(typed)
    /\ Trimmed(expected, typed).lb > 4
    /\ levResult[1] < Trimmed(expected, typed).lb

C25_CorrectHasNoTypos ==
    (side = "back" /\ back.verdict = "correct") => back.typos = <<>>

\* A correct answer of two meanings, one of them within typo tolerance of
\* another accepted meaning.
C25_Witness ==
    /\ side = "back"
    /\ card.Card = "Meaning"
    /\ back.verdict = "correct"
    /\ Len(back.answers) = 2
    /\ \E a \in Range(back.answers), e \in Range(mangledCorrectAnswers(card)) :
           a # e /\ likelyTypo(mangle(card, e), mangle(card, a))

(***************************************************************************)
(* C26: when the input is empty the token set is empty, and pressing Enter *)
(* triggers neither a warning nor a shake, on Meaning and on Reading       *)
(* cards, whatever the card's fields: the keypress passes through.         *)
(***************************************************************************)
C26_EmptyInputNeverWarns ==
    [][(Enter /\ value = <<>>) =>
         /\ value' = <<>>
         /\ keypress'.answers = <<>>
         /\ ~keypress'.warning
         /\ ~keypress'.prevented
         /\ shake' = shake
         /\ submitted' = << <<>> >>]_vars

\* Enter on the emptied input of a Reading card whose every field would
\* hold the empty token if empty strings were split.
C26_Witness ==
    /\ keypress.pressed
    /\ keypress.value = <<>>
    /\ submitted = << <<>> >>
    /\ card.Card = "Reading"
    /\ card.Reading_Whitelist = <<>>
    /\ card.Meaning_Whitelist = <<>>

(***************************************************************************)
(* C27: every typo suggestion pairs a submitted token with an accepted     *)
(* token it is a near-miss of and does not match: a submitted token that   *)
(* is itself in allAccepted appears in no suggestion, also when another    *)
(* token made the submission Incorrect.                                    *)
(***************************************************************************)
C27_AcceptedTokenGetsNoSuggestion ==
    side = "back" =>
        \A i \in 1..Len(back.typos) :
            /\ back.typos[i].ans # back.typos[i].expected
            /\ back.typos[i].ans \notin AllAcceptedNormalized(card)

(***************************************************************************)
(* C28: an Enter pressed while a shake is in progress is never rejected:   *)
(* it passes through to submission even when the advisor warns about the   *)
(* input; the shake ends only with animationend (or with the input itself, *)
(* when the back is shown), and after that the same input is rejected      *)
(* again.                                                                  *)
(***************************************************************************)
C28_EnterDuringShakePasses ==
    [][/\ (Enter /\ shake) =>
            /\ ~keypress'.prevented
            /\ submitted' = <<value'>>
            /\ shake'
       /\ (shake /\ ~shake') => (AnimationEnd \/ side' = "back")
       /\ (Enter /\ ~shake /\ keypress'.warning) =>
            /\ keypress'.prevented
            /\ shake'
            /\ submitted' = submitted]_vars

\* The input that passed during the shake is rejected after animationend.
C28_Witness ==
    /\ keypress.pressed
    /\ keypress.warning
    /\ keypress.prevented
    /\ ~keypress.shaking
    /\ shake
    /\ submitted = <<value>>

(***************************************************************************)
(* C29: where the real-but-unlisted-reading rule of a Kanji or Vocabulary  *)
(* Reading card is reached, "every token is in allReadings" implies "some  *)
(* token is in allReadings and not in allAccepted", and the advisor's      *)
(* decision equals "every token is in allReadings".                        *)
(***************************************************************************)
C29_RuleDIsEveryTokenAReading ==
    (/\ keypress.pressed
     /\ card.Card = "Reading"
     /\ card.Card_Type \in {"Kanji", "Vocabulary"}
     /\ keypress.answers # <<>>
     /\ RulesABCDoNotApply(card, Range(keypress.answers))
     /\ ~KanaOfMeaning(card, Range(keypress.answers)))
        => /\ Range(keypress.answers) \subseteq AllReadings(card) =>
                  Range(keypress.answers) \cap
                      (AllReadings(card) \ ReadingAllAccepted(card)) # {}
           /\ keypress.warning <=>
                  Range(keypress.answers) \subseteq AllReadings(card)

(***************************************************************************)
(* C30: deepFreeze(obj) returns obj itself and leaves every object and     *)
(* array reachable from obj frozen, for every finite object graph, those   *)
(* with null-valued properties included; it never throws.                  *)
(***************************************************************************)
RECURSIVE ReachableFrom(_, _)
ReachableFrom(h, seen) ==
    LET next == {o \in Objects : o \in seen \/
                    \E p \in seen : \E i \in 1..Len(h[p]) :
                        h[p][i] = Obj(o)}
    IN  IF next = seen THEN seen ELSE ReachableFrom(h, next)

C30_DeepFreezeFreezesAll ==
    freezeResult # <<>> =>
        /\ freezeResult[1].outcome = "returned"
        /\ freezeResult[1].value = Obj(1)
        /\ ReachableFrom(heap, {1}) \subseteq frozen

====
